---- MODULE Spec2Model ----
(***************************************************************************)
(* PDFJoiner: the merge pipeline of pdfjoiner/service.py                   *)
(* (MergeService.merge and the two stamping stages it calls), as a state   *)
(* machine that walks through one call of merge statement by statement.    *)
(*                                                                         *)
(* Strings built by the code are modelled as sequences of tokens, so that  *)
(* "starts with" and "contains" are statements about sequences:            *)
(*   f"{entry.filename}: {exc}"  is  <<filename, ": ", reason>>.           *)
(* The document backend (PyMuPDF) is the environment: what a file holds    *)
(* and whether a backend call raises is chosen when the call is made.      *)
(*                                                                         *)
(* Further specifications share the module: SpecStamp runs one of the      *)
(* stamping functions on its own, with the geometry it computes; SpecAnnot *)
(* is the annotation editing of the merged preview and SpecOptions the     *)
(* window's output options (view.py); SpecProject is the file list of      *)
(* model.py and SpecDrag its reordering by drag and drop (view.py).        *)
(***************************************************************************)
EXTENDS Integers, Sequences, FiniteSets, TLC

\* ------------------------------------------------------------------ bounds

\* Longest entry list handed to merge.
MaxEntries == 3

\* Largest number of pages a source document reports.
MaxPages == 2

\* --------------------------------------------------------- model.py: entries

\* pathlib suffix -> suffix.lower(), for the suffixes of the modelled paths.
Lower(s) ==
    CASE s = ".PDF" -> ".pdf"
      [] s = ".PNG" -> ".png"
      [] OTHER -> s

\* The paths the entries are drawn from: name is Path.name, suffix is
\* Path.suffix.
Paths ==
    { [name |-> "a.PDF", suffix |-> ".PDF"],
      [name |-> "b.png", suffix |-> ".png"] }

\* FileEntry.filename
filename(e) == e.path.name

\* FileEntry.is_pdf
is_pdf(e) == Lower(e.path.suffix) = ".pdf"

\* FileEntry: path and the included flag (page_count and thumbnail are not
\* read by merge).
FileEntry == [path : Paths, included : BOOLEAN]

\* All entry lists of length 0..MaxEntries.
EntryLists == UNION { [1..n -> FileEntry] : n \in 0..MaxEntries }

\* ------------------------------------------------------- options (inputs)

\* WatermarkOptions.text.strip(), for the modelled texts.
Strip(t) ==
    CASE t = "  " -> ""
      [] OTHER -> t

\* WatermarkOptions: off, on with a text, on with a blank text.
WatermarkOptions ==
    { [enabled |-> FALSE, text |-> "DRAFT"],
      [enabled |-> TRUE, text |-> "DRAFT"],
      [enabled |-> TRUE, text |-> "  "] }

PageNumberOptions == [enabled : BOOLEAN]

\* A TextAnnotation as merge sees it: the page it is placed on (0-based).
\* Page 1 is the second page of the output, or no page of a one-page output.
TextAnnotation == [page : {1}]

\* OutputOptions() as MainWindow creates it: both stages off, no annotation.
DefaultOptions ==
    [watermark |-> [enabled |-> FALSE, text |-> "DRAFT"],
     page_numbers |-> [enabled |-> FALSE],
     annotations |-> <<>>]

\* OutputOptions: the default; the default with one setting changed (the
\* watermark on, the watermark on with a blank text, page numbers on, one
\* annotation placed); and both stages on.
OutputOptions ==
    { [DefaultOptions EXCEPT !.watermark = w] : w \in WatermarkOptions }
    \cup { [DefaultOptions EXCEPT !.page_numbers = n] : n \in PageNumberOptions }
    \cup { [DefaultOptions EXCEPT !.annotations = <<a>>] : a \in TextAnnotation }
    \cup { [DefaultOptions EXCEPT !.watermark = [enabled |-> TRUE, text |-> "DRAFT"],
                                  !.page_numbers = [enabled |-> TRUE]] }

\* Optional[OutputOptions]: <<>> is None, <<o>> is the options object o.
OptionalOptions == {<<>>} \cup { <<o>> : o \in OutputOptions }

\* ------------------------------------------------------ backend outcomes

\* What the backend does with one entry's file: whether fitz.open succeeds,
\* how many pages the opened document reports, and whether the insert/draw
\* calls made for it succeed.  A file that cannot be opened has no pages.
\* A PDF has 0..MaxPages pages, and insert_pdf may fail on an empty as on a
\* non-empty one; an image file has no, one or two frames, and its draw may
\* fail once a first frame is there (without one, line 286 fails before).
Outcomes(e) ==
    { [open |-> FALSE, pages |-> 0, draw |-> TRUE] }
    \cup (IF is_pdf(e)
          THEN [open : {TRUE}, pages : 0..MaxPages, draw : {TRUE}]
               \cup [open : {TRUE}, pages : 0..1, draw : {FALSE}]
          ELSE [open : {TRUE}, pages : 0..2, draw : {TRUE}]
               \cup [open : {TRUE}, pages : {1}, draw : {FALSE}])

\* --------------------------------------------------------------- state

VARIABLES
    entries,      \* the entry list passed to merge
    options,      \* the options passed to merge (<<>> for None)
    pc,           \* position in merge
    included,     \* line 270: indices (into entries) of the included entries
    idx,          \* loop position in included (1-based), line 277
    output_doc,   \* <<>> until created; then <<pages>>, pages a sequence
    result,       \* MergeResult: page_count, skipped
    opened,       \* indices of the entries handed to _open_document, in order
    outcome,      \* per loop iteration: the entry, what the backend did with
                  \* its file, and the exception the iteration raised ("" none)
    unclosed,     \* documents opened or created and not closed
    stamp_i,      \* next page (0-based) of the running stamping stage
    stage_log,    \* stamping stages entered, in order
    destination,  \* <<>> until saved; then <<pages>>
    writes,       \* number of times the destination was written
    raised,       \* <<>> or <<exception>> merge ended with
    call_fn,      \* the stamping function called on its own ("" for none)
    call_opts,    \* the options object handed to it
    call_doc,     \* its document: the page rectangles, in page order
    call_i,       \* its loop position (0-based page index)
    call_pc,      \* "idle", "running" or "returned"
    drawn,        \* what it has drawn so far, one record per page
    annotations,  \* MainWindow._output_options.annotations
    pixmap,       \* the page widget's pixmap size
    annotate_mode,\* AnnotatedPageWidget._annotate_mode
    selected,     \* AnnotatedPageWidget._selected: <<>> or <<object id>>
    dragging,     \* AnnotatedPageWidget._dragging
    drag_offset,  \* AnnotatedPageWidget._drag_offset_x, _drag_offset_y
    next_id,      \* identity of the next TextAnnotation object created
    output_options, \* MainWindow._output_options; its annotations field is
                  \* the identity of the list object it refers to
    checkboxes,   \* the quick-toggle checkboxes of the options bar
    model_entries,  \* ProjectModel._entries
    list_changed, \* emissions of list_changed by the last handler
    returned,     \* <<>> or <<value>> the last ProjectModel call returned
    drag_source,  \* the drag over the widget: "none", "self", "external"
    drag_start_row, \* FileListWidget._drag_start_row
    gap_index,    \* FileListWidget._gap_index
    row_moved,    \* <<>> or the <<old_row, new_row>> the last handler emitted
    last_call     \* <<>> or the last handler: its name and the indices it got

vars == <<entries, options, pc, included, idx, output_doc, result, opened,
          outcome, unclosed, stamp_i, stage_log, destination, writes, raised>>

\* The state of a stamping function called on its own.
callVars == <<call_fn, call_opts, call_doc, call_i, call_pc, drawn>>

\* The state of the preview's annotation editing.
annotVars == <<annotations, pixmap, annotate_mode, selected, dragging,
               drag_offset, next_id>>

\* The state of the window's output options.
optVars == <<output_options, checkboxes>>

\* No window is open.
OptIdle ==
    /\ output_options = <<>>
    /\ checkboxes = <<>>

\* The state of the project's file list and of the widget that shows it.
projVars == <<model_entries, list_changed, returned, drag_source,
              drag_start_row, gap_index, row_moved, last_call>>

\* model.py line 55 and view.py lines 195-196: a new ProjectModel and a new
\* FileListWidget.
ProjIdle ==
    /\ model_entries = <<>>
    /\ list_changed = 0
    /\ returned = <<>>
    /\ drag_source = "none"
    /\ drag_start_row = -1
    /\ gap_index = -1
    /\ row_moved = <<>>
    /\ last_call = <<>>

\* No stamping function is being run on its own.
CallIdle ==
    /\ call_fn = ""
    /\ call_opts = <<>>
    /\ call_doc = <<>>
    /\ call_i = 0
    /\ call_pc = "idle"
    /\ drawn = <<>>

\* No preview is open: no annotation, no page widget.
AnnotIdle ==
    /\ annotations = <<>>
    /\ pixmap = [width |-> 0, height |-> 0]
    /\ annotate_mode = FALSE
    /\ selected = <<>>
    /\ dragging = FALSE
    /\ drag_offset = [x |-> 0, y |-> 0]
    /\ next_id = 1

\* The state of one call of merge.
MergeIdle ==
    /\ entries = <<>>
    /\ options = <<>>
    /\ pc = "idle"
    /\ included = <<>>
    /\ idx = 1
    /\ output_doc = <<>>
    /\ result = [page_count |-> 0, skipped |-> <<>>]
    /\ opened = <<>>
    /\ outcome = <<>>
    /\ unclosed = {}
    /\ stamp_i = 0
    /\ stage_log = <<>>
    /\ destination = <<>>
    /\ writes = 0
    /\ raised = <<>>

\* ------------------------------------------------------------ helpers

\* A page of the output document: the entry it came from, its 1-based
\* position in the source, and what was drawn on it, in drawing order.
Page(i, n) == [src |-> i, n |-> n, stamps |-> <<>>]

\* The pages of the output document (empty before it is created).
Pages(doc) == IF doc = <<>> THEN <<>> ELSE doc[1]

\* doc.page_count
page_count(doc) == Len(Pages(doc))

\* line 270: [e for e in entries if e.included], as indices into entries.
RECURSIVE IncludedFrom(_, _)
IncludedFrom(es, i) ==
    IF i > Len(es) THEN <<>>
    ELSE IF es[i].included THEN <<i>> \o IncludedFrom(es, i + 1)
    ELSE IncludedFrom(es, i + 1)

\* Mutant: the filter of line 270 dropped (every entry is merged).
IncludedAll(es) == [i \in 1..Len(es) |-> i]

\* Mutant: the filter of line 270 inverted.
IncludedInverted(es) ==
    IncludedFrom([i \in 1..Len(es) |->
                    [es[i] EXCEPT !.included = ~es[i].included]], 1)

Included(es) == IncludedFrom(es, 1)

\* Mutant: the skip string built from the suffix instead of the filename.
SkipStringSuffix(e, reason) == <<e.path.suffix, ": ", reason>>

\* line 294: f"{entry.filename}: {exc}"
SkipString(e, reason) == <<filename(e), ": ", reason>>

\* Mutant: pages inserted at the front of the output (start_at = 0).
insert_pdf_front(pages, src_pages) == src_pages \o pages

\* lines 281 and 290: Document.insert_pdf appends the source's pages.
insert_pdf(pages, src_pages) == pages \o src_pages

\* line 281: a PDF entry brings all the pages of its document, in order.
PdfPages(i, o) == [n \in 1..o.pages |-> Page(i, n)]

\* Mutant: an image entry inserted like a PDF (every page of src).
ImagePagesAll(i, o) == [n \in 1..o.pages |-> Page(i, n)]

\* lines 284-290: an image entry brings the one page of img_pdf.
ImagePages(i, o) == <<Page(i, 1)>>

\* "\n".join(strings), each string a token sequence.
RECURSIVE Join(_)
Join(ss) ==
    IF ss = <<>> THEN <<>>
    ELSE IF Len(ss) = 1 THEN ss[1]
    ELSE ss[1] \o <<"\n">> \o Join(Tail(ss))

\* Mutant: the empty-output message without the joined reasons.
EmptyOutputMessageBare(skipped) ==
    <<"All files failed to process. No output generated.\n\n">>

\* lines 299-302: the message of the empty-output ValueError.
EmptyOutputMessage(skipped) ==
    <<"All files failed to process. No output generated.\n\n">> \o Join(skipped)

\* The exception one loop iteration raises for entry e with backend outcome
\* o: "" when the body runs to src.close().
\*   line 279: fitz.open raises;
\*   line 281: insert_pdf raises;
\*   line 286: src[0] raises IndexError on a document without pages;
\*   lines 285-290: new_page / insert_image / insert_pdf raises.
EntryError(e, o) ==
    IF ~o.open THEN "cannot open file"
    ELSE IF is_pdf(e) THEN (IF o.draw THEN "" ELSE "backend error")
    ELSE IF o.pages = 0 THEN "page not in document"
    ELSE IF o.draw THEN "" ELSE "backend error"

\* Documents left open by one iteration that raised: src once it was opened,
\* img_pdf once it was created (lines 291 and 292 are skipped by the raise).
Leaked(i, e, o) ==
    IF ~o.open THEN {}
    ELSE IF is_pdf(e) THEN {<<"src", i>>}
    ELSE {<<"src", i>>, <<"img_pdf", i>>}

\* Mutant: page numbers applied before the watermark.
StageAfterSwapped(stage) ==
    CASE stage = "check" -> "page_numbers"
      [] stage = "page_numbers" -> "watermark"
      [] stage = "watermark" -> "save"

\* The control sequence of lines 297-316: the zero-page check, then
\* _apply_watermark, then _apply_page_numbers, then the save.
StageAfter(stage) ==
    CASE stage = "check" -> "watermark"
      [] stage = "watermark" -> "page_numbers"
      [] stage = "page_numbers" -> "save"

\* Mutant: one try block around both stages (a failure skips what follows).
AfterFailureAbort(stage) == "save"

\* lines 308-309 and 313-314: the except clause records the warning and
\* control falls through to what follows the stage.
AfterFailure(stage) == StageAfter(stage)

\* Mutant: the zero-page check of line 297 removed.
NoPagesNever(doc) == FALSE

\* line 297: output_doc.page_count == 0
NoPages(doc) == page_count(doc) = 0

\* Mutant: the watermark gate without the strip().
WatermarkGateNoStrip(o) == o.watermark.enabled

\* lines 118-119: the watermark gate.
WatermarkGate(o) == o.watermark.enabled /\ Strip(o.watermark.text) # ""

\* lines 71-72: the page-number gate.
PageNumberGate(o) == o.page_numbers.enabled

\* Mutant: the stamped page is re-inserted at the front of the document.
DrawMovesPage(pages, i, stamp) ==
    << [pages[i + 1] EXCEPT !.stamps = Append(@, stamp)] >>
    \o SubSeq(pages, 1, i) \o SubSeq(pages, i + 2, Len(pages))

\* pages with `stamp` drawn on page i (0-based).
Draw(pages, i, stamp) ==
    [pages EXCEPT ![i + 1].stamps = Append(@, stamp)]

\* ----------------------------------------------------------------- Init

Init ==
    /\ entries \in EntryLists
    /\ options \in OptionalOptions
    /\ pc = "call"
    /\ included = <<>>
    /\ idx = 1
    /\ output_doc = <<>>
    /\ result = [page_count |-> 0, skipped |-> <<>>]
    /\ opened = <<>>
    /\ outcome = <<>>
    /\ unclosed = {}
    /\ stamp_i = 0
    /\ stage_log = <<>>
    /\ destination = <<>>
    /\ writes = 0
    /\ raised = <<>>
    /\ CallIdle
    /\ AnnotIdle
    /\ OptIdle
    /\ ProjIdle

\* -------------------------------------------------------------- actions

\* lines 270-275: filter, the empty-input error, the new result and document.
MergeBegin ==
    /\ pc = "call"
    /\ included' = Included(entries)
    /\ IF included' = <<>>
       THEN /\ raised' = <<[type |-> "ValueError",
                            message |-> <<"No files selected for merging.">>]>>
            /\ pc' = "raised"
            /\ UNCHANGED <<output_doc, unclosed>>
       ELSE /\ output_doc' = << <<>> >>
            /\ unclosed' = {<<"output_doc", 0>>}
            /\ pc' = "loop"
            /\ UNCHANGED raised
    /\ UNCHANGED <<entries, options, idx, result, opened, outcome, stamp_i,
                   stage_log, destination, writes>>

\* lines 277-295: one iteration of the assembly loop.
ProcessEntry ==
    /\ pc = "loop"
    /\ idx <= Len(included)
    /\ \E o \in Outcomes(entries[included[idx]]) :
        LET i == included[idx]
            e == entries[i]
            err == EntryError(e, o)
        IN /\ opened' = Append(opened, i)
           /\ outcome' = Append(outcome, [entry |-> i, file |-> o, exc |-> err])
           /\ IF err = ""
              THEN /\ output_doc' =
                        << insert_pdf(Pages(output_doc),
                                      IF is_pdf(e) THEN PdfPages(i, o)
                                      ELSE ImagePages(i, o)) >>
                   /\ UNCHANGED <<result, unclosed>>
              ELSE /\ result' = [result EXCEPT
                                   !.skipped = Append(@, SkipString(e, err))]
                   /\ unclosed' = unclosed \cup Leaked(i, e, o)
                   /\ UNCHANGED output_doc
    /\ idx' = idx + 1
    /\ UNCHANGED <<entries, options, pc, included, stamp_i, stage_log,
                   destination, writes, raised>>

\* Mutant: the document saved right after assembly as well (before the
\* stamping stages), and again at the end.
CheckPagesSaving ==
    /\ pc = "loop"
    /\ idx > Len(included)
    /\ IF NoPages(output_doc)
       THEN /\ unclosed' = unclosed \ {<<"output_doc", 0>>}
            /\ raised' = <<[type |-> "ValueError",
                            message |-> EmptyOutputMessage(result.skipped)]>>
            /\ pc' = "raised"
            /\ UNCHANGED <<destination, writes>>
       ELSE /\ pc' = IF options = <<>> THEN "save" ELSE StageAfter("check")
            /\ destination' = <<Pages(output_doc)>>
            /\ writes' = writes + 1
            /\ UNCHANGED <<unclosed, raised>>
    /\ stamp_i' = 0
    /\ UNCHANGED <<entries, options, included, idx, output_doc, result,
                   opened, outcome, stage_log>>

\* Mutant: a failed save reported in skipped like a stage warning, and the
\* result returned.
SaveSwallowing ==
    /\ pc = "save"
    /\ \E ok \in BOOLEAN :
        IF ok
        THEN /\ destination' = <<Pages(output_doc)>>
             /\ writes' = writes + 1
             /\ result' = [result EXCEPT !.page_count = page_count(output_doc)]
        ELSE /\ result' = [result EXCEPT
                              !.page_count = page_count(output_doc),
                              !.skipped = Append(@, <<"Save", ": ", "cannot write">>)]
             /\ UNCHANGED <<destination, writes>>
    /\ unclosed' = unclosed \ {<<"output_doc", 0>>}
    /\ pc' = "returned"
    /\ UNCHANGED <<entries, options, included, idx, output_doc, opened,
                   outcome, stamp_i, stage_log, raised>>

\* lines 297-305: the loop is over; the empty-output error, or on to the
\* stamping stages (options present) or straight to the save (options None).
CheckPages ==
    /\ pc = "loop"
    /\ idx > Len(included)
    /\ IF NoPages(output_doc)
       THEN /\ unclosed' = unclosed \ {<<"output_doc", 0>>}
            /\ raised' = <<[type |-> "ValueError",
                            message |-> EmptyOutputMessage(result.skipped)]>>
            /\ pc' = "raised"
       ELSE /\ pc' = IF options = <<>> THEN "save" ELSE StageAfter("check")
            /\ UNCHANGED <<unclosed, raised>>
    /\ stamp_i' = 0
    /\ UNCHANGED <<entries, options, included, idx, output_doc, result,
                   opened, outcome, stage_log, destination, writes>>

\* Mutant: the try/except inside the page loop (a failed page is reported
\* and the stage goes on with the next page).
StampStepPerPage(stage, gate, label) ==
    /\ pc = stage
    /\ stage_log' = IF stamp_i = 0 THEN Append(stage_log, stage) ELSE stage_log
    /\ IF ~gate \/ stamp_i >= page_count(output_doc)
       THEN /\ pc' = StageAfter(stage)
            /\ stamp_i' = 0
            /\ UNCHANGED <<output_doc, result>>
       ELSE /\ \E ok \in BOOLEAN :
                IF ok
                THEN /\ output_doc' = << Draw(Pages(output_doc), stamp_i, stage) >>
                     /\ UNCHANGED result
                ELSE /\ result' = [result EXCEPT
                                     !.skipped = Append(@, <<label, ": ", "backend error">>)]
                     /\ UNCHANGED output_doc
            /\ IF stamp_i + 1 < page_count(output_doc)
               THEN /\ stamp_i' = stamp_i + 1
                    /\ pc' = pc
               ELSE /\ stamp_i' = 0
                    /\ pc' = StageAfter(stage)
    /\ UNCHANGED <<entries, options, included, idx, opened, outcome, unclosed,
                   destination, writes, raised>>

\* One step of a stamping stage (lines 306-309 with 112-145, lines 311-314
\* with 64-109): the gate on entry, then one page of "for page in doc" per
\* step.  A draw that raises ends the stage with the stage's warning string.
StampStep(stage, gate, label) ==
    /\ pc = stage
    /\ stage_log' = IF stamp_i = 0 THEN Append(stage_log, stage) ELSE stage_log
    /\ IF ~gate \/ stamp_i >= page_count(output_doc)
       THEN /\ pc' = StageAfter(stage)
            /\ stamp_i' = 0
            /\ UNCHANGED <<output_doc, result>>
       ELSE \E ok \in BOOLEAN :
            IF ok
            THEN /\ output_doc' = << Draw(Pages(output_doc), stamp_i, stage) >>
                 /\ IF stamp_i + 1 < page_count(output_doc)
                    THEN /\ stamp_i' = stamp_i + 1
                         /\ pc' = pc
                    ELSE /\ stamp_i' = 0
                         /\ pc' = StageAfter(stage)
                 /\ UNCHANGED result
            ELSE /\ result' = [result EXCEPT
                                 !.skipped = Append(@, <<label, ": ", "backend error">>)]
                 /\ stamp_i' = 0
                 /\ pc' = AfterFailure(stage)
                 /\ UNCHANGED output_doc
    /\ UNCHANGED <<entries, options, included, idx, opened, outcome, unclosed,
                   destination, writes, raised>>

\* lines 306-309 and _apply_watermark (112-145).
apply_watermark ==
    StampStep("watermark", WatermarkGate(options[1]), "Watermark")

\* lines 311-314 and _apply_page_numbers (64-109).
apply_page_numbers ==
    StampStep("page_numbers", PageNumberGate(options[1]), "Page numbers")

\* lines 316-319: record the page count, save, close, return.
Save ==
    /\ pc = "save"
    /\ result' = [result EXCEPT !.page_count = page_count(output_doc)]
    /\ \E ok \in BOOLEAN :
        IF ok
        THEN /\ destination' = <<Pages(output_doc)>>
             /\ writes' = writes + 1
             /\ unclosed' = unclosed \ {<<"output_doc", 0>>}
             /\ pc' = "returned"
             /\ UNCHANGED raised
        ELSE /\ raised' = <<[type |-> "OSError", message |-> <<"cannot write">>]>>
             /\ pc' = "raised"
             /\ UNCHANGED <<destination, writes, unclosed>>
    /\ UNCHANGED <<entries, options, included, idx, output_doc, opened,
                   outcome, stamp_i, stage_log>>

\* lines 158-160: MergeResult.has_warnings.
has_warnings(r) == Len(r.skipped) > 0

\* service.py lines 236-241: the rasters one included entry adds to the
\* merged preview, each named by the entry and the page it shows.  The
\* file outcome is the one merge met: a file that cannot be opened, or
\* whose drawing calls fail, raises inside the try and adds nothing.
PreviewPages(i, o) ==
    IF ~o.open \/ ~o.draw THEN <<>>
    ELSE [n \in 1..o.pages |-> <<i, n>>]

\* service.py lines 222-242: render_merged_preview over the entry list,
\* files[k] being the file outcome of the k-th included entry.
RECURSIVE PreviewFrom(_, _, _)
PreviewFrom(incl, files, k) ==
    IF k > Len(incl) THEN <<>>
    ELSE PreviewPages(incl[k], files[k]) \o PreviewFrom(incl, files, k + 1)

render_merged_preview(es, files) == PreviewFrom(IncludedFrom(es, 1), files, 1)

Next ==
    \/ MergeBegin /\ UNCHANGED <<callVars, annotVars, optVars, projVars>>
    \/ ProcessEntry /\ UNCHANGED <<callVars, annotVars, optVars, projVars>>
    \/ CheckPages /\ UNCHANGED <<callVars, annotVars, optVars, projVars>>
    \/ apply_watermark /\ UNCHANGED <<callVars, annotVars, optVars, projVars>>
    \/ apply_page_numbers /\ UNCHANGED <<callVars, annotVars, optVars, projVars>>
    \/ Save /\ UNCHANGED <<callVars, annotVars, optVars, projVars>>

Spec == Init /\ [][Next]_vars

\* ======================================================================
\* Properties of merge
\* ======================================================================

\* The indices of the entries with included == true.
IncludedIdx == { i \in 1..Len(entries) : entries[i].included }

\* The k-th loop iteration ran without an exception.
Good(k) == outcome[k].exc = ""

\* The k-th processed entry is a PDF entry (suffix .pdf in any case).
LoggedPdf(k) == entries[outcome[k].entry].path.suffix \in {".pdf", ".PDF"}

\* The page count of the k-th processed entry: native for a PDF, 1 for an
\* image.
EntryPageCount(k) == IF LoggedPdf(k) THEN outcome[k].file.pages ELSE 1

\* Sum of EntryPageCount over the good iterations among the first k.
RECURSIVE SumGood(_)
SumGood(k) ==
    IF k = 0 THEN 0
    ELSE SumGood(k - 1) + (IF Good(k) THEN EntryPageCount(k) ELSE 0)

\* The number of failed iterations among the first k.
RECURSIVE CountBad(_)
CountBad(k) ==
    IF k = 0 THEN 0
    ELSE CountBad(k - 1) + (IF Good(k) THEN 0 ELSE 1)

\* merge is past the assembly loop and the zero-page check.
AfterLoop == pc \notin {"call", "loop"}

PageIds(pages) == [p \in 1..Len(pages) |-> <<pages[p].src, pages[p].n>>]

\* The pages the first k iterations are to leave: per good iteration, pages
\* 1..EntryPageCount of its entry; nothing for a failed one.
RECURSIVE ExpectedPageIds(_)
ExpectedPageIds(k) ==
    IF k = 0 THEN <<>>
    ELSE ExpectedPageIds(k - 1) \o
         (IF Good(k)
          THEN [n \in 1..EntryPageCount(k) |-> <<outcome[k].entry, n>>]
          ELSE <<>>)

C3_EmptyInput ==
    (IncludedIdx = {} /\ pc # "call") =>
        /\ pc = "raised"
        /\ raised = <<[type |-> "ValueError",
                       message |-> <<"No files selected for merging.">>]>>
        /\ opened = <<>>
        /\ outcome = <<>>
        /\ output_doc = <<>>
        /\ unclosed = {}
        /\ writes = 0
        /\ destination = <<>>

\* C3 witness: a non-empty list of excluded entries, merge has raised.
C3_Witness ==
    /\ pc = "raised"
    /\ Len(entries) >= 2
    /\ IncludedIdx = {}

\* The skip strings the first k iterations are to leave, in order.
RECURSIVE ExpectedSkips(_)
ExpectedSkips(k) ==
    IF k = 0 THEN <<>>
    ELSE ExpectedSkips(k - 1) \o
         (IF Good(k) THEN <<>>
          ELSE << <<entries[outcome[k].entry].path.name, ": ", outcome[k].exc>> >>)

\* msg contains the strings of strs as disjoint substrings, in order.
RECURSIVE ContainsInOrder(_, _)
ContainsInOrder(msg, strs) ==
    IF strs = <<>> THEN TRUE
    ELSE LET n == Len(strs[1])
         IN \E p \in 1..(Len(msg) - n + 1) :
               /\ SubSeq(msg, p, p + n - 1) = strs[1]
               /\ ContainsInOrder(SubSeq(msg, p + n, Len(msg)), Tail(strs))

\* C4: with an included entry and a zero-page document after the loop, merge
\* fails with an error whose message contains the skip string of every failed
\* included entry, in entry order; no stamping stage runs, nothing is saved.
C4_EmptyOutput ==
    (AfterLoop /\ IncludedIdx # {} /\ page_count(output_doc) = 0) =>
        /\ pc = "raised"
        /\ Len(raised) = 1
        /\ raised[1].type = "ValueError"
        /\ ContainsInOrder(raised[1].message, ExpectedSkips(Len(outcome)))
        /\ Len(outcome) = Cardinality(IncludedIdx)
        /\ stage_log = <<>>
        /\ writes = 0
        /\ destination = <<>>

\* C4 witness: the empty-output error after two failed entries.
C4_Witness ==
    /\ pc = "raised"
    /\ Len(outcome) >= 2
    /\ CountBad(Len(outcome)) >= 2
    /\ page_count(output_doc) = 0
    /\ options # <<>>

\* C5: every returned MergeResult has page_count > 0.
C5_PositivePageCount ==
    pc = "returned" => result.page_count > 0

\* C5 witness: a merge that returned although an included entry brought no
\* page.
C5_Witness ==
    /\ pc = "returned"
    /\ \E k \in 1..Len(outcome) : ~Good(k) \/ outcome[k].file.pages = 0

\* The strings of skipped that report entries (not a stamping stage).
EntrySkips(skipped) ==
    SelectSeq(skipped, LAMBDA t : t[1] \notin {"Watermark", "Page numbers"})

\* C6: an entry with included == false is never opened, contributes no page
\* and produces no string in skipped: the strings that report entries are
\* one per failed iteration, and every iteration is of an included entry.
C6_ExcludedUntouched ==
    /\ \A i \in 1..Len(entries) :
          ~entries[i].included =>
             /\ \A k \in 1..Len(opened) : opened[k] # i
             /\ \A k \in 1..Len(outcome) : outcome[k].entry # i
             /\ \A p \in 1..page_count(output_doc) : Pages(output_doc)[p].src # i
             /\ \A p \in 1..page_count(destination) : Pages(destination)[p].src # i
    /\ EntrySkips(result.skipped) = ExpectedSkips(Len(outcome))

\* C6 witness: a returned merge with a skipped entry and an excluded entry.
C6_Witness ==
    /\ pc = "returned"
    /\ \E i \in 1..Len(entries) : ~entries[i].included
    /\ result.skipped # <<>>

\* Exactly one included entry failed and merge returned (so the others, at
\* least one of them, succeeded).
OneBadEntry == pc = "returned" /\ CountBad(Len(outcome)) = 1

\* The one failed iteration.
TheBad == CHOOSE k \in 1..Len(outcome) : ~Good(k)

\* String t starts with the filename of entry i followed by ": ".
StartsWithFilename(t, i) ==
    Len(t) >= 2 /\ t[1] = entries[i].path.name /\ t[2] = ": "

C8_ZeroPageSourceSkipped ==
    \A k \in 1..Len(outcome) :
        (outcome[k].file.open /\ outcome[k].file.pages = 0) => ~Good(k)

\* C9 as stated: when merge returns, every annotation of the options whose
\* page is a page of the document has been drawn on that page of the saved
\* document.
C9_AnnotationsDrawn ==
    (pc = "returned" /\ options # <<>>) =>
        \A a \in 1..Len(options[1].annotations) :
            LET page == options[1].annotations[a].page
            IN page < page_count(destination) =>
                 \E t \in 1..Len(Pages(destination)[page + 1].stamps) :
                     Pages(destination)[page + 1].stamps[t] = "annotation"

\* The stamps of a page hold `first` at a position before `second`.
StampedBefore(stamps, first, second) ==
    \E a, b \in 1..Len(stamps) :
        a < b /\ stamps[a] = first /\ stamps[b] = second

\* C10: the watermark stage is over before the page-number stage draws on
\* any page: once a page carries a page number the watermark stage has been
\* entered first and is not running, and no page has its page number drawn
\* before its watermark.
C10_WatermarkFirst ==
    /\ \A p \in 1..page_count(output_doc) :
          ~StampedBefore(Pages(output_doc)[p].stamps, "page_numbers", "watermark")
    /\ (\/ pc = "page_numbers"
        \/ \E p \in 1..page_count(output_doc) :
              \E t \in 1..Len(Pages(output_doc)[p].stamps) :
                  Pages(output_doc)[p].stamps[t] = "page_numbers")
       => /\ stage_log # <<>>
          /\ stage_log[1] = "watermark"
          /\ pc # "watermark"
          /\ \A t \in 2..Len(stage_log) : stage_log[t] # "watermark"

\* C10 witness: a page that carries its watermark and, drawn after it, its
\* page number, while another page still waits for its page number.
C10_Witness ==
    /\ pc = "page_numbers"
    /\ page_count(output_doc) >= 2
    /\ Pages(output_doc)[1].stamps = <<"watermark", "page_numbers">>
    /\ Pages(output_doc)[2].stamps = <<"watermark">>

\* The strings of skipped that report a stamping stage.
StageWarnings(skipped) ==
    SelectSeq(skipped, LAMBDA t : t[1] \in {"Watermark", "Page numbers"})

\* The stamping part of merge is over (the save is next, or done, or failed).
AfterStamping ==
    \/ pc \in {"save", "returned"}
    \/ pc = "raised" /\ raised[1].type = "OSError"

\* Page p (1-based) of pages carries the stamp.
HasStamp(pages, p, stamp) ==
    \E t \in 1..Len(pages[p].stamps) : pages[p].stamps[t] = stamp

\* C11: with options present the watermark stage and the page-number stage
\* are each attempted exactly once, in this order, whether or not the other
\* raised; each failure is reported by its own string, the watermark's first.
C11_BothStagesOnce ==
    AfterStamping =>
        /\ options # <<>> => stage_log = <<"watermark", "page_numbers">>
        /\ options = <<>> => stage_log = <<>>
        /\ LET w == StageWarnings(result.skipped)
           IN /\ Len(w) <= 2
              /\ \A t \in 1..Len(w) : Len(w[t]) = 3 /\ w[t][2] = ": "
              /\ Len(w) = 2 => w[1][1] = "Watermark" /\ w[2][1] = "Page numbers"

\* C11 witness: the watermark stage failed and the page-number stage still
\* drew on a page.
C11_Witness ==
    /\ pc = "returned"
    /\ \E t \in 1..Len(result.skipped) : result.skipped[t][1] = "Watermark"
    /\ HasStamp(Pages(destination), 1, "page_numbers")

\* The number of strings of skipped that start with label.
CountLabel(skipped, label) ==
    Cardinality({ t \in 1..Len(skipped) : skipped[t][1] = label })

\* One step of merge, as C12 wants it.
C12_Step ==
    /\ CountLabel(result.skipped', "Watermark") <= 1
    /\ CountLabel(result.skipped', "Page numbers") <= 1
    /\ \A p \in 1..page_count(output_doc) :
          /\ p <= page_count(output_doc')
          /\ Len(Pages(output_doc')[p].stamps) >= Len(Pages(output_doc)[p].stamps)
          /\ SubSeq(Pages(output_doc')[p].stamps, 1, Len(Pages(output_doc)[p].stamps))
                = Pages(output_doc)[p].stamps
    /\ Len(StageWarnings(result.skipped')) > Len(StageWarnings(result.skipped)) =>
          /\ Len(result.skipped') = Len(result.skipped) + 1
          /\ output_doc' = output_doc
          /\ pc' \in {"page_numbers", "save"}
          /\ raised' = <<>>
    /\ (pc' = "raised" /\ StageWarnings(result.skipped') # <<>>) =>
          raised'[1].type = "OSError"

\* C12: an exception while stamping a page is not fatal: it adds exactly one
\* warning string for its stage (never more than one per stage), the pages
\* stamped before keep their stamps, and merge goes on to the next stage and
\* the save (only a failed save can still make it raise).
C12_StampFailureNotFatal == [][C12_Step]_vars

\* C12 witness: merge returned with the watermark warning, the first page
\* watermarked and the second (where the stage failed) not.
C12_Witness ==
    /\ pc = "returned"
    /\ CountLabel(result.skipped, "Watermark") = 1
    /\ page_count(destination) >= 2
    /\ HasStamp(Pages(destination), 1, "watermark")
    /\ ~HasStamp(Pages(destination), 2, "watermark")

\* A watermark text that is blank after trimming.
Blank(text) == text \in {"", " ", "  "}

\* C17: the watermark stage draws on a page only if watermark.enabled and the
\* text is not blank after trimming; otherwise it draws on no page and adds
\* no warning; likewise the page-number stage when page_numbers.enabled is
\* false (and neither stage when options is None).
C17_Gates ==
    LET wm == options # <<>> /\ options[1].watermark.enabled
                             /\ ~Blank(options[1].watermark.text)
        pn == options # <<>> /\ options[1].page_numbers.enabled
    IN /\ ~wm => /\ \A p \in 1..page_count(output_doc) :
                       ~HasStamp(Pages(output_doc), p, "watermark")
                 /\ CountLabel(result.skipped, "Watermark") = 0
       /\ ~pn => /\ \A p \in 1..page_count(output_doc) :
                       ~HasStamp(Pages(output_doc), p, "page_numbers")
                 /\ CountLabel(result.skipped, "Page numbers") = 0
       /\ (wm /\ AfterStamping /\ CountLabel(result.skipped, "Watermark") = 0) =>
              \A p \in 1..page_count(output_doc) :
                  HasStamp(Pages(output_doc), p, "watermark")

\* C17 witness: merge returned with the watermark enabled and a blank text.
C17_Witness ==
    /\ pc = "returned"
    /\ options # <<>>
    /\ options[1].watermark.enabled
    /\ Blank(options[1].watermark.text)

\* One step of merge, as C18 wants it.
C18_Step ==
    /\ pc \in {"watermark", "page_numbers"} =>
          PageIds(Pages(output_doc')) = PageIds(Pages(output_doc))
    /\ (pc = "save" /\ pc' = "returned") =>
          /\ PageIds(Pages(destination')) = PageIds(Pages(output_doc))
          /\ result'.page_count = page_count(output_doc)

\* C18: stamping never adds, removes or reorders pages: no step of a stamping
\* stage changes the page sequence, failed or not, and what is saved is that
\* sequence.
C18_StampingKeepsPages == [][C18_Step]_vars

\* C18 witness: a saved document of several pages, stamped by one stage while
\* the other failed.
C18_Witness ==
    /\ pc = "returned"
    /\ page_count(destination) >= 3
    /\ CountLabel(result.skipped, "Page numbers") = 1
    /\ HasStamp(Pages(destination), 3, "watermark")
    /\ HasStamp(Pages(destination), 1, "page_numbers")

\* ======================================================================
\* _apply_page_numbers and _apply_watermark, called on their own
\* ======================================================================
\* Strings are sequences of one-character strings here, so that
\* str.replace works on substrings as the code's does.  Lengths are exact
\* multiples of 1/Unit point (the code computes them in floating point):
\* Unit is chosen so that every scaling by height / 842 and every halving
\* in the code is exact on the modelled inputs.

\* Most pages of a document handed to a stamping function.
MaxStampPages == 3

\* line 56: _REF_PAGE_HEIGHT, in points.
REF_PAGE_HEIGHT == 842

\* Units per point.
Unit == 2 * REF_PAGE_HEIGHT

\* page.rect of a page of w x h points.
Rect(w, h) == [width |-> w * Unit, height |-> h * Unit]

\* The page rectangles: A4, a page of A4's width and twice its height, and
\* a small image page.
PageRects == { Rect(595, 842), Rect(595, 1684), Rect(80, 100) }

\* The documents: 1..MaxStampPages pages.
StampDocs == UNION { [1..n -> PageRects] : n \in 1..MaxStampPages }

\* The characters of the modelled pieces of text.
Chars(piece) ==
    CASE piece = "{n}" -> <<"{", "n", "}">>
      [] piece = "{total}" -> <<"{", "t", "o", "t", "a", "l", "}">>
      [] piece = " / " -> <<" ", "/", " ">>
      [] piece = "- " -> <<"-", " ">>
      [] piece = " -" -> <<" ", "-">>
      [] OTHER -> <<piece>>

\* The characters of a text given as its pieces.
RECURSIVE Spell(_)
Spell(pieces) ==
    IF pieces = <<>> THEN <<>>
    ELSE Chars(Head(pieces)) \o Spell(Tail(pieces))

\* The formats, as pieces: the dialog's "{n} / {total}" and "- {n} -"
\* (view.py, _pn_format) and a typed one with a repeated placeholder.
FormatPieces ==
    { <<"{n}", " / ", "{total}">>,
      <<"- ", "{n}", " -">>,
      <<"{n}", "-", "{n}", "{total}">> }

\* The decimal digit of d in 0..9.
Digit(d) ==
    CASE d = 0 -> "0" [] d = 1 -> "1" [] d = 2 -> "2" [] d = 3 -> "3"
      [] d = 4 -> "4" [] d = 5 -> "5" [] d = 6 -> "6" [] d = 7 -> "7"
      [] d = 8 -> "8" [] OTHER -> "9"

\* str(number) of a non-negative int.
RECURSIVE str(_)
str(number) ==
    IF number < 10 THEN <<Digit(number)>>
    ELSE str(number \div 10) \o <<Digit(number % 10)>>

\* str.replace(old, new) with count 1: the first occurrence only.
RECURSIVE replace_first(_, _, _)
replace_first(s, old, new) ==
    IF Len(s) < Len(old) THEN s
    ELSE IF SubSeq(s, 1, Len(old)) = old
         THEN new \o SubSeq(s, Len(old) + 1, Len(s))
         ELSE <<Head(s)>> \o replace_first(Tail(s), old, new)

\* str.replace(old, new): every non-overlapping occurrence, left to right.
RECURSIVE replace(_, _, _)
replace(s, old, new) ==
    IF Len(s) < Len(old) THEN s
    ELSE IF SubSeq(s, 1, Len(old)) = old
         THEN new \o replace(SubSeq(s, Len(old) + 1, Len(s)), old, new)
         ELSE <<Head(s)>> \o replace(Tail(s), old, new)

\* PageNumberOptions with the fields _apply_page_numbers reads.  position
\* is the string split at its hyphen; margin and font_size are in points,
\* within the dialog's ranges; start is such that numbers pass from one
\* digit to two.
StampPageNumberOptions ==
    [enabled : {TRUE},
     position : {"bottom", "top"} \X {"center", "left", "right"},
     format : { Spell(f) : f \in {<<"{n}", " / ", "{total}">>} },
     start : {5},
     font_size : {4, 72},
     margin : {10, 200}]
    \cup [enabled : {TRUE},
          position : {<<"bottom", "center">>},
          format : { Spell(f) : f \in FormatPieces },
          start : {0, 5, 9},
          font_size : {10},
          margin : {36}]
    \cup [enabled : {FALSE},
          position : {<<"bottom", "center">>},
          format : { Spell(<<"{n}">>) },
          start : {1},
          font_size : {10},
          margin : {36}]

\* WatermarkOptions with the fields _apply_watermark reads before drawing.
StampWatermarkOptions ==
    [enabled : BOOLEAN, text : {"DRAFT", "  "}, font_size : {8, 200}]

\* "bottom" in pos, "left" in pos, ...
In(word, pos) == pos[1] = word \/ pos[2] = word

\* lines 59-61: a reference-size value v (points) scaled to the page, in
\* units: v * Unit * (rect.height / Unit) / _REF_PAGE_HEIGHT.
scale_by_width(v, rect) == (v * rect.width) \div REF_PAGE_HEIGHT

scale_for_page(v, rect) == (v * rect.height) \div REF_PAGE_HEIGHT

\* font.text_length(text, fontsize=font_size): the backend's measurement,
\* some whole number of ems (one em, or forty).
text_length(font_size) == { font_size * ems : ems \in {1, 40} }

Max(a, b) == IF a >= b THEN a ELSE b

Min(a, b) == IF a <= b THEN a ELSE b

\* lines 86-90, with y = margin for "top" (the baseline at the margin).
anchor_y_at_margin(pos, rect, margin, font_size) ==
    IF In("bottom", pos) THEN rect.height - margin
    ELSE margin

\* lines 86-90: the vertical anchor.
anchor_y(pos, rect, margin, font_size) ==
    IF In("bottom", pos) THEN rect.height - margin
    ELSE margin + font_size

\* lines 95-100: the horizontal anchor.
anchor_x(pos, rect, margin, text_width) ==
    IF In("left", pos) THEN margin
    ELSE IF In("right", pos) THEN rect.width - margin - text_width
    ELSE (rect.width - text_width) \div 2

\* line 79: the text of the page at index i of total.
page_number_text(opts, i, total) ==
    replace(replace(opts.format, Chars("{n}"), str(opts.start + i)),
            Chars("{total}"), str(total))

\* lines 77-108: what the loop body draws on the page at index i.
PageNumberDraw(opts, i, total, rect, text_width) ==
    LET font_size == scale_for_page(opts.font_size, rect)
        margin == scale_for_page(opts.margin, rect)
        y == anchor_y(opts.position, rect, margin, font_size)
        x == anchor_x(opts.position, rect, margin, text_width)
    IN  [page |-> i,
         text |-> page_number_text(opts, i, total),
         font_size |-> font_size,
         margin |-> margin,
         text_width |-> text_width,
         anchor |-> [x |-> x, y |-> y],
         at |-> [x |-> Max(0, Min(x, rect.width - text_width)),
                 y |-> Max(font_size, Min(y, rect.height))]]

\* lines 126-144: what the loop body draws on one page; the text is placed
\* by a transform about the page centre.
WatermarkDraw(opts, i, rect) ==
    [page |-> i,
     text |-> opts.text,
     font_size |-> scale_for_page(opts.font_size, rect),
     center |-> [x |-> rect.width \div 2, y |-> rect.height \div 2]]

\* A stamping function is called with some options and some document.
InitStamp ==
    /\ MergeIdle
    /\ AnnotIdle
    /\ OptIdle
    /\ ProjIdle
    /\ \/ call_fn = "_apply_page_numbers" /\ call_opts \in StampPageNumberOptions
       \/ call_fn = "_apply_watermark" /\ call_opts \in StampWatermarkOptions
    /\ call_doc \in StampDocs
    /\ call_i = 0
    /\ call_pc = "running"
    /\ drawn = <<>>

\* _apply_page_numbers, one loop iteration at a time: the gate of lines
\* 71-72, then for each page the body of lines 78-108.
ApplyPageNumbers ==
    /\ call_fn = "_apply_page_numbers"
    /\ call_pc = "running"
    /\ IF ~PageNumberGate([page_numbers |-> call_opts]) \/ call_i >= Len(call_doc)
       THEN /\ call_pc' = "returned"
            /\ UNCHANGED <<call_i, drawn>>
       ELSE LET rect == call_doc[call_i + 1]
                font_size == scale_for_page(call_opts.font_size, rect)
            IN  \E text_width \in text_length(font_size) :
                   /\ drawn' = Append(drawn,
                         PageNumberDraw(call_opts, call_i, Len(call_doc),
                                        rect, text_width))
                   /\ call_i' = call_i + 1
                   /\ UNCHANGED call_pc
    /\ UNCHANGED <<call_fn, call_opts, call_doc>>

\* _apply_watermark, one loop iteration at a time: the gate of lines
\* 118-119, then for each page the body of lines 126-144.
ApplyWatermark ==
    /\ call_fn = "_apply_watermark"
    /\ call_pc = "running"
    /\ IF ~WatermarkGate([watermark |-> call_opts]) \/ call_i >= Len(call_doc)
       THEN /\ call_pc' = "returned"
            /\ UNCHANGED <<call_i, drawn>>
       ELSE /\ drawn' = Append(drawn,
                  WatermarkDraw(call_opts, call_i, call_doc[call_i + 1]))
            /\ call_i' = call_i + 1
            /\ UNCHANGED call_pc
    /\ UNCHANGED <<call_fn, call_opts, call_doc>>

NextStamp ==
    \/ ApplyPageNumbers /\ UNCHANGED <<vars, annotVars, optVars, projVars>>
    \/ ApplyWatermark /\ UNCHANGED <<vars, annotVars, optVars, projVars>>

SpecStamp == InitStamp /\ [][NextStamp]_callVars

\* ======================================================================
\* Properties of the stamping functions
\* ======================================================================

\* The pieces a modelled format is spelled from.
PiecesOf(format) ==
    CHOOSE f \in FormatPieces \cup {<<"{n}">>} : Spell(f) = format

\* The pieces of a format with "{n}" and "{total}" filled in.
RECURSIVE Filled(_, _, _)
Filled(pieces, number, total) ==
    IF pieces = <<>> THEN <<>>
    ELSE (CASE Head(pieces) = "{n}" -> str(number)
            [] Head(pieces) = "{total}" -> str(total)
            [] OTHER -> Chars(Head(pieces)))
         \o Filled(Tail(pieces), number, total)

\* The draws of a page-number call.
PageNumberDraws ==
    IF call_fn = "_apply_page_numbers" THEN 1..Len(drawn) ELSE {}

\* The draws of a watermark call.
WatermarkDraws ==
    IF call_fn = "_apply_watermark" THEN 1..Len(drawn) ELSE {}

\* C13: with page numbers enabled, the text drawn on the page at index i is
\* the format with every "{n}" replaced by the decimal of start + i and
\* every "{total}" by the decimal of the document's page count, which is
\* the same on every page.
C13_PageNumberText ==
    \A k \in PageNumberDraws :
        /\ call_opts.enabled
        /\ drawn[k].page = k - 1
        /\ drawn[k].text = Filled(PiecesOf(call_opts.format),
                                  call_opts.start + (k - 1), Len(call_doc))

\* The claim's example: format "{n} / {total}", start 5, three pages give
\* "5 / 3", "6 / 3", "7 / 3".
C13_Witness ==
    /\ call_fn = "_apply_page_numbers"
    /\ call_pc = "returned"
    /\ call_opts.format = Spell(<<"{n}", " / ", "{total}">>)
    /\ call_opts.start = 5
    /\ Len(drawn) = 3
    /\ drawn[1].text = <<"5", " ", "/", " ", "3">>
    /\ drawn[2].text = <<"6", " ", "/", " ", "3">>
    /\ drawn[3].text = <<"7", " ", "/", " ", "3">>

\* C14 (as stated): every page-number draw is at 2 <= x <= pageWidth -
\* textWidth - 2 and fontSize + 2 <= y <= pageHeight - 2 (in points).
C14_ClampedInside ==
    \A k \in PageNumberDraws :
        LET d == drawn[k]
            rect == call_doc[k]
        IN  /\ 2 * Unit <= d.at.x
            /\ d.at.x <= rect.width - d.text_width - 2 * Unit
            /\ d.font_size + 2 * Unit <= d.at.y
            /\ d.at.y <= rect.height - 2 * Unit

\* C15: before clamping, the anchor is y = margin + fontSize for "top" and
\* y = pageHeight - margin for "bottom"; x = margin for "left", pageWidth -
\* margin - textWidth for "right" and (pageWidth - textWidth) / 2 for
\* "center", with the margin and font size scaled for the page.
C15_Anchors ==
    \A k \in PageNumberDraws :
        LET d == drawn[k]
            rect == call_doc[k]
            margin == (call_opts.margin * rect.height) \div REF_PAGE_HEIGHT
            fontSize == (call_opts.font_size * rect.height) \div REF_PAGE_HEIGHT
            v == call_opts.position[1]
            h == call_opts.position[2]
        IN  /\ v = "top" => d.anchor.y = margin + fontSize
            /\ v = "bottom" => d.anchor.y = rect.height - margin
            /\ h = "left" => d.anchor.x = margin
            /\ h = "right" => d.anchor.x = rect.width - margin - d.text_width
            /\ h = "center" => 2 * d.anchor.x = rect.width - d.text_width

\* A "top" and "right" call has returned, and on one of its pages the clamp
\* moved the text away from its anchor.
C15_Witness ==
    /\ call_fn = "_apply_page_numbers"
    /\ call_pc = "returned"
    /\ call_opts.position = <<"top", "right">>
    /\ \E k \in 1..Len(drawn) : drawn[k].at # drawn[k].anchor
    /\ \E k \in 1..Len(drawn) : drawn[k].at = drawn[k].anchor

\* C16: the watermark's font size and the page numbers' font size and
\* margin on a page are the configured value times pageHeight / 842; on two
\* pages of heights H and 2H of one document the second's are exactly
\* twice the first's.
C16_ScaledByHeight ==
    /\ \A k \in 1..Len(drawn) :
          drawn[k].font_size * REF_PAGE_HEIGHT
              = call_opts.font_size * call_doc[k].height
    /\ \A k \in PageNumberDraws :
          drawn[k].margin * REF_PAGE_HEIGHT
              = call_opts.margin * call_doc[k].height
    /\ \A j, k \in 1..Len(drawn) :
          call_doc[k].height = 2 * call_doc[j].height =>
              /\ drawn[k].font_size = 2 * drawn[j].font_size
              /\ k \in PageNumberDraws =>
                     drawn[k].margin = 2 * drawn[j].margin

\* A watermark call has drawn on an A4 page and on one twice as high.
C16_Witness ==
    /\ call_fn = "_apply_watermark"
    /\ call_pc = "returned"
    /\ \E j, k \in 1..Len(drawn) :
          /\ call_doc[j] = Rect(595, 842)
          /\ call_doc[k] = Rect(595, 1684)
          /\ drawn[j].font_size = call_opts.font_size * Unit

\* ======================================================================
\* Annotations in the merged preview (view.py)
\* ======================================================================
\* One page widget and the window's annotation list.  A TextAnnotation
\* object is a record whose id stands for the object's identity.  A ratio
\* is an exact fraction [n, d] (the code computes it in floating point).

\* Most annotations placed in one session.
MaxAnnotations == 2

\* The pixmap sizes of the page widget: a rendered page, and a null pixmap.
Pixmaps == { [width |-> 2, height |-> 2], [width |-> 0, height |-> 0] }

\* event.position(): left of the widget, and below it.
Positions == { [x |-> 0 - 3, y |-> 1], [x |-> 1, y |-> 5] }

\* What the user leaves in an AnnotationDialog: the text typed, the font
\* size and the colour chosen.  A new annotation's dialog and an edit's.
NewInputs ==
    { [text |-> " note ", font_size |-> 12, color |-> "Black"],
      [text |-> "  ", font_size |-> 12, color |-> "Black"] }

EditInputs ==
    { [text |-> "fix", font_size |-> 20, color |-> "Red"],
      [text |-> "  ", font_size |-> 20, color |-> "Red"] }

\* str.strip() for the texts typed.
StripText(t) ==
    CASE t = " note " -> "note"
      [] t = "  " -> ""
      [] OTHER -> t

\* a / b for b > 0, and q * b.
Ratio(a, b) == [n |-> a, d |-> b]

Times(q, b) == (q.n * b) \div q.d

\* The ratio as computed, without the clamp.
Unclamped(q) == q

\* max(0.0, min(1.0, q))
Clamp01(q) ==
    IF q.n < 0 THEN Ratio(0, q.d)
    ELSE IF q.n > q.d THEN Ratio(q.d, q.d)
    ELSE q

\* lines 752-762: AnnotationDialog.get_annotation, as a new object.
get_annotation(id, page_index, x_ratio, y_ratio, input) ==
    [id |-> id, page |-> page_index, x_ratio |-> x_ratio, y_ratio |-> y_ratio,
     text |-> StripText(input.text), font_size |-> input.font_size,
     color |-> input.color]

\* The page the widget shows (AnnotatedPageWidget._page_index).
PageIndex == 0

\* The index in the list of the object with this id.
IndexOf(anns, id) == CHOOSE k \in 1..Len(anns) : anns[k].id = id

\* _hit_test: the annotation under the position, if any.  Which one lies
\* under it depends on the font metrics of the painted texts.
Hits(anns) == {<<>>} \cup { <<anns[k].id>> : k \in 1..Len(anns) }

\* lines 1716-1736 replacing the object by the dialog's (not in place).
EditReplacing(anns, k, updated) ==
    [anns EXCEPT ![k] = updated]

\* lines 1730-1734: the in-place assignment of text, font_size and color.
EditInPlace(anns, k, updated) ==
    [anns EXCEPT ![k].text = updated.text,
                 ![k].font_size = updated.font_size,
                 ![k].color = updated.color]

\* The preview is shown for some pixmap; nothing is placed yet.
InitAnnot ==
    /\ MergeIdle
    /\ CallIdle
    /\ OptIdle
    /\ ProjIdle
    /\ annotations = <<>>
    /\ pixmap \in Pixmaps
    /\ annotate_mode = FALSE
    /\ selected = <<>>
    /\ dragging = FALSE
    /\ drag_offset = [x |-> 0, y |-> 0]
    /\ next_id = 1

\* The identity the next object created gets: one no object of the list
\* has (an identity is free again once its object is gone).
FreeId(anns) ==
    CHOOSE i \in 1..(Len(anns) + 1) :
        /\ \A k \in 1..Len(anns) : anns[k].id # i
        /\ \A j \in 1..(i - 1) : \E k \in 1..Len(anns) : anns[k].id = j

\* TextAnnotation equality, as `in` and list.remove use it: the spec's
\* identity by reference.
TextAnnotationEq(a, b) == a.id = b.id

\* Equality of the field values.
SameFields(a, b) ==
    /\ a.page = b.page /\ a.x_ratio = b.x_ratio /\ a.y_ratio = b.y_ratio
    /\ a.text = b.text /\ a.font_size = b.font_size /\ a.color = b.color

\* ann in anns
Contains(anns, ann) == \E k \in 1..Len(anns) : TextAnnotationEq(anns[k], ann)

\* The list without its element at index k.
RemoveAt(anns, k) == SubSeq(anns, 1, k - 1) \o SubSeq(anns, k + 1, Len(anns))

\* list.remove taking the first element with the same field values.
list_remove_by_value(anns, ann) ==
    RemoveAt(anns, CHOOSE k \in 1..Len(anns) :
                      /\ SameFields(anns[k], ann)
                      /\ \A j \in 1..(k - 1) : ~SameFields(anns[j], ann))

\* line 1741: annotations.remove(ann), the first element equal to ann.
list_remove(anns, ann) ==
    RemoveAt(anns, CHOOSE k \in 1..Len(anns) :
                      /\ TextAnnotationEq(anns[k], ann)
                      /\ \A j \in 1..(k - 1) : ~TextAnnotationEq(anns[j], ann))

\* lines 457-462: the annotate_mode setter.
SetAnnotateMode ==
    /\ \E on \in BOOLEAN : annotate_mode' = on
    /\ UNCHANGED <<annotations, pixmap, selected, dragging, drag_offset, next_id>>

\* lines 578-603 (left button) with the slot it reaches, lines 1691-1706:
\* select the annotation hit, or deselect and, in annotate mode, ask for a
\* new annotation at the clamped ratios.
MousePressLeft ==
    \E pos \in Positions, hit \in Hits(annotations) :
       IF hit # <<>>
       THEN LET a == annotations[IndexOf(annotations, hit[1])]
            IN  /\ selected' = hit
                /\ dragging' = FALSE
                /\ drag_offset' =
                      [x |-> pos.x - Times(a.x_ratio, pixmap.width),
                       y |-> pos.y - Times(a.y_ratio, pixmap.height)]
                /\ UNCHANGED <<annotations, pixmap, annotate_mode, next_id>>
       ELSE /\ selected' = <<>>
            /\ IF annotate_mode /\ pixmap.width > 0 /\ pixmap.height > 0
               THEN \E accepted \in BOOLEAN, input \in NewInputs :
                      LET x_ratio == Clamp01(Ratio(pos.x, pixmap.width))
                          y_ratio == Clamp01(Ratio(pos.y, pixmap.height))
                          ann == get_annotation(next_id, PageIndex,
                                                x_ratio, y_ratio, input)
                      IN  IF accepted /\ ann.text # ""
                             /\ Len(annotations) < MaxAnnotations
                          THEN /\ annotations' = Append(annotations, ann)
                               /\ next_id' = FreeId(annotations')
                          ELSE UNCHANGED <<annotations, next_id>>
               ELSE UNCHANGED <<annotations, next_id>>
            /\ UNCHANGED <<pixmap, annotate_mode, dragging, drag_offset>>

\* lines 614-627: a move with the left button held drags the selection.
MouseMoveDrag ==
    /\ selected # <<>>
    /\ \E pos \in Positions :
         LET k == IndexOf(annotations, selected[1])
             pw == pixmap.width
             ph == pixmap.height
         IN  /\ dragging' = TRUE
             /\ IF pw > 0 /\ ph > 0
                THEN annotations' =
                       [annotations EXCEPT
                          ![k].x_ratio = Clamp01(Ratio(pos.x - drag_offset.x, pw)),
                          ![k].y_ratio = Clamp01(Ratio(pos.y - drag_offset.y, ph))]
                ELSE UNCHANGED annotations
    /\ UNCHANGED <<pixmap, annotate_mode, selected, drag_offset, next_id>>

\* lines 639-643 with the slot of lines 1708-1714 (a status message only).
MouseReleaseLeft ==
    /\ dragging /\ selected # <<>>
    /\ dragging' = FALSE
    /\ UNCHANGED <<annotations, pixmap, annotate_mode, selected, drag_offset,
                   next_id>>

\* lines 652-659 with the slot of lines 1716-1736: a double click on the
\* annotation hit selects it and opens the edit dialog, which the user
\* accepts or cancels with this input.
Edit(hit, accepted, input) ==
    LET k == IndexOf(annotations, hit[1])
        ann == annotations[k]
        updated == get_annotation(next_id, ann.page, ann.x_ratio,
                                  ann.y_ratio, input)
    IN  /\ selected' = hit
        /\ IF accepted /\ updated.text # ""
           THEN annotations' = EditInPlace(annotations, k, updated)
           ELSE UNCHANGED annotations
        /\ UNCHANGED <<pixmap, annotate_mode, dragging, drag_offset, next_id>>

MouseDoubleClickEdit ==
    \E hit \in Hits(annotations) \ {<<>>}, accepted \in BOOLEAN,
       input \in EditInputs : Edit(hit, accepted, input)

\* lines 662-668 (Delete or Backspace with a selection) with the slot of
\* lines 1738-1746 and set_annotations (lines 469-474): the annotation is
\* removed from the list and the widget drops its selection.
Delete(ann) ==
    /\ selected = <<ann.id>>
    /\ IF Contains(annotations, ann)
       THEN /\ annotations' = list_remove(annotations, ann)
            /\ selected' = IF Contains(annotations', ann) THEN selected ELSE <<>>
       ELSE UNCHANGED <<annotations, selected>>
    /\ next_id' = FreeId(annotations')
    /\ UNCHANGED <<pixmap, annotate_mode, dragging, drag_offset>>

KeyPressDelete ==
    \E k \in 1..Len(annotations) : Delete(annotations[k])

NextAnnot ==
    \/ SetAnnotateMode /\ UNCHANGED <<vars, callVars, optVars, projVars>>
    \/ MousePressLeft /\ UNCHANGED <<vars, callVars, optVars, projVars>>
    \/ MouseMoveDrag /\ UNCHANGED <<vars, callVars, optVars, projVars>>
    \/ MouseReleaseLeft /\ UNCHANGED <<vars, callVars, optVars, projVars>>
    \/ MouseDoubleClickEdit /\ UNCHANGED <<vars, callVars, optVars, projVars>>
    \/ KeyPressDelete /\ UNCHANGED <<vars, callVars, optVars, projVars>>

SpecAnnot == InitAnnot /\ [][NextAnnot]_annotVars

\* ======================================================================
\* Properties of the annotation editing
\* ======================================================================

\* 0 <= q <= 1
InUnitInterval(q) == q.d > 0 /\ 0 <= q.n /\ q.n <= q.d

\* C19: after any sequence of placements and drags, at any mouse position
\* (also outside the widget), every annotation's x_ratio and y_ratio are
\* in [0, 1].
C19_RatiosInUnitInterval ==
    \A k \in 1..Len(annotations) :
        /\ InUnitInterval(annotations[k].x_ratio)
        /\ InUnitInterval(annotations[k].y_ratio)

\* An annotation placed inside the widget is being dragged and the mouse,
\* left of the widget, has pushed it to the left edge (x_ratio 0); another
\* one, placed below the widget, is on the bottom edge (y_ratio 1).
C19_Witness ==
    /\ dragging
    /\ selected = <<1>>
    /\ Len(annotations) = 2
    /\ annotations[1].x_ratio.n = 0
    /\ annotations[2].x_ratio.n = 1
    /\ annotations[2].y_ratio.n = annotations[2].y_ratio.d

\* What an edit of the annotation hit leaves behind.
EditPost(hit, accepted, input) ==
    LET k == IndexOf(annotations, hit[1])
    IN  /\ Len(annotations') = Len(annotations)
        /\ \A j \in 1..Len(annotations) :
              /\ annotations'[j].id = annotations[j].id
              /\ annotations'[j].page = annotations[j].page
              /\ annotations'[j].x_ratio = annotations[j].x_ratio
              /\ annotations'[j].y_ratio = annotations[j].y_ratio
              /\ j # k => annotations'[j] = annotations[j]
        /\ IF accepted /\ StripText(input.text) # ""
           THEN /\ annotations'[k].text = StripText(input.text)
                /\ annotations'[k].font_size = input.font_size
                /\ annotations'[k].color = input.color
           ELSE annotations' = annotations

C20_Step ==
    \A hit \in Hits(annotations) \ {<<>>}, accepted \in BOOLEAN,
       input \in EditInputs :
        Edit(hit, accepted, input) => EditPost(hit, accepted, input)

\* C20: an edit mutates the existing object: the list keeps its length and
\* its objects at their indices, the edited annotation keeps page, x_ratio
\* and y_ratio and takes the dialog's text, font_size and color; a
\* cancelled edit or an edit to blank text changes nothing.
C20_EditInPlace == [][C20_Step]_annotVars

\* The first of two annotations has been edited; both objects are where
\* they were.
C20_Witness ==
    /\ Len(annotations) = 2
    /\ annotations[1].id = 1
    /\ annotations[2].id = 2
    /\ annotations[1].text = "fix"
    /\ annotations[2].text = "note"
    /\ selected = <<1>>

\* What deleting the annotation object ann leaves behind: the list without
\* that object, every other object where it was relative to the others.
DeletePost(ann) ==
    LET k == IndexOf(annotations, ann.id)
    IN  /\ Len(annotations') = Len(annotations) - 1
        /\ \A j \in 1..(k - 1) : annotations'[j] = annotations[j]
        /\ \A j \in k..Len(annotations') : annotations'[j] = annotations[j + 1]

C21_Step ==
    \A k \in 1..Len(annotations) :
        Delete(annotations[k]) => DeletePost(annotations[k])

FilesMet == [k \in 1..Len(outcome) |-> outcome[k].file]

\* C22 (as stated): for the same entries and file outcomes the merged
\* preview has one raster per page of the saved document, in page order.
C22_PreviewMatchesMerge ==
    pc = "returned" =>
        render_merged_preview(entries, FilesMet) = PageIds(Pages(destination))

\* Every included entry has been through the assembly loop.
AllProcessed == Len(included) > 0 /\ Len(outcome) = Len(included) /\ idx > Len(included)

\* Both stamping stages have run (there are none when options is None).
AllStamped == options # <<>> => stage_log = <<"watermark", "page_numbers">>

\* C23: the destination is written at most once and only as merge's last
\* step, after every included entry was processed and both stamping stages
\* have run; an execution ending in the empty-input or the empty-output
\* error never writes it.
C23_WrittenOnceAtTheEnd ==
    /\ writes <= 1
    /\ (writes > 0 \/ destination # <<>>) =>
          /\ pc = "returned"
          /\ AllProcessed
          /\ AllStamped
          /\ destination = <<Pages(output_doc)>>
    /\ (pc = "raised" /\ raised[1].type = "ValueError") =>
          writes = 0 /\ destination = <<>>

\* merge has returned after writing a stamped document of two entries.
C23_Witness ==
    /\ pc = "returned"
    /\ writes = 1
    /\ Len(included) >= 2
    /\ options # <<>>
    /\ \E p \in 1..page_count(destination) : Pages(destination)[p].stamps # <<>>

\* C24: a failed save is propagated to the caller as raised and no
\* MergeResult is returned (a returned merge has written the destination);
\* it happens only after the assembly and both stamping stages.
C24_SaveFailurePropagates ==
    /\ (raised # <<>> /\ raised[1].type = "OSError") =>
          /\ pc = "raised"
          /\ raised = <<[type |-> "OSError", message |-> <<"cannot write">>]>>
          /\ AllProcessed
          /\ AllStamped
          /\ writes = 0
    /\ pc = "returned" => raised = <<>> /\ writes = 1

\* The save failed after both stages ran, one of them with a warning.
C24_Witness ==
    /\ pc = "raised"
    /\ raised[1].type = "OSError"
    /\ stage_log = <<"watermark", "page_numbers">>
    /\ StageWarnings(result.skipped) # <<>>

\* An included entry that failed, in the spec's sense: its iteration raised,
\* or its document opened with zero pages.
FailedEntry(k) ==
    ~Good(k) \/ (outcome[k].file.open /\ outcome[k].file.pages = 0)

\* The filenames of the failed ones of the first k processed entries.
RECURSIVE FailedNames(_)
FailedNames(k) ==
    IF k = 0 THEN <<>>
    ELSE FailedNames(k - 1) \o
         (IF FailedEntry(k) THEN <<entries[outcome[k].entry].path.name>> ELSE <<>>)

\* The first token of each string.
Firsts(strs) == [j \in 1..Len(strs) |-> strs[j][1]]

\* C25 (as stated): in a returned MergeResult, skipped holds one string per
\* failed included entry, in entry order, then at most one "Watermark: ..."
\* and then at most one "Page numbers: ..." string; has_warnings is true
\* exactly when skipped is non-empty.
C25_SkippedExact ==
    pc = "returned" =>
        /\ Firsts(EntrySkips(result.skipped)) = FailedNames(Len(outcome))
        /\ result.skipped = EntrySkips(result.skipped) \o StageWarnings(result.skipped)
        /\ Firsts(StageWarnings(result.skipped))
              \in {<<>>, <<"Watermark">>, <<"Page numbers">>,
                   <<"Watermark", "Page numbers">>}
        /\ has_warnings(result) <=> result.skipped # <<>>

\* C30 (as stated): every document merge opened or created is closed when
\* merge has returned or raised.
C30_AllClosed ==
    pc \in {"returned", "raised"} => unclosed = {}

\* ======================================================================
\* The window's output options (view.py)
\* ======================================================================
\* MainWindow._output_options is an OutputOptions object whose annotations
\* field refers to a list object; the list's items are the variable
\* annotations.  A list object is named by a number.

\* What the user leaves in the page-number tab of the dialog.
DialogPageNumbers ==
    [enabled : BOOLEAN, position : {"bottom-center", "top-left"}, start : {1, 5}]

\* What the user leaves in the watermark tab: the text field may be empty.
DialogWatermarks == [enabled : BOOLEAN, text : {"", "CONFIDENTIAL"}]

\* lines 1254: self._wm_text.text() or "DRAFT"
TextOrDraft(t) == IF t = "" THEN "DRAFT" ELSE t

\* A list object other than this one (what a new OutputOptions refers to).
NewList(ref) == IF ref = 1 THEN 2 ELSE 1

\* lines 1240-1261: get_options builds a new OutputOptions from the UI
\* state; its annotations field is a list of its own.
get_options(pn, wm, current) ==
    [page_numbers |-> pn,
     watermark |-> [enabled |-> wm.enabled, text |-> TextOrDraft(wm.text)],
     annotations |-> NewList(current.annotations)]

\* The new options left with the list get_options gave them.
WithOwnAnnotations(new, saved_annotations) == new

\* lines 1663-1665: the session's list put into the new options.
WithSavedAnnotations(new, saved_annotations) ==
    [new EXCEPT !.annotations = saved_annotations]

\* lines 1677-1685: the checkboxes follow the options' enabled flags.
sync_option_checkboxes(opts) ==
    [page_numbers |-> opts.page_numbers.enabled,
     watermark |-> opts.watermark.enabled]

\* The annotations a session may hold when the options are edited.
SessionAnnotations ==
    LET a1 == get_annotation(1, 0, Ratio(0, 2), Ratio(1, 2),
                             [text |-> " note ", font_size |-> 12, color |-> "Black"])
        a2 == get_annotation(2, 1, Ratio(2, 2), Ratio(1, 2),
                             [text |-> "fix", font_size |-> 20, color |-> "Red"])
    IN  { <<>>, <<a1>>, <<a1, a2>>, <<a2, a1>> }

\* line 1282 and the annotations placed since: default options (both
\* stages off), unchecked checkboxes.
InitOptions ==
    /\ MergeIdle
    /\ CallIdle
    /\ output_options =
          [page_numbers |-> [enabled |-> FALSE, position |-> "bottom-center",
                             start |-> 1],
           watermark |-> [enabled |-> FALSE, text |-> "DRAFT"],
           annotations |-> 1]
    /\ ProjIdle
    /\ checkboxes = [page_numbers |-> FALSE, watermark |-> FALSE]
    /\ annotations \in SessionAnnotations
    /\ pixmap = [width |-> 0, height |-> 0]
    /\ annotate_mode = FALSE
    /\ selected = <<>>
    /\ dragging = FALSE
    /\ drag_offset = [x |-> 0, y |-> 0]
    /\ next_id = FreeId(annotations)

\* lines 1659-1667: the dialog is accepted with this UI state.
OptionsAccepted(pn, wm) ==
    LET saved_annotations == output_options.annotations
        new == WithSavedAnnotations(get_options(pn, wm, output_options),
                                    saved_annotations)
    IN  /\ output_options' = new
        /\ annotations' = IF new.annotations = saved_annotations
                          THEN annotations ELSE <<>>
        /\ checkboxes' = sync_option_checkboxes(new)
        /\ UNCHANGED <<pixmap, annotate_mode, selected, dragging, drag_offset,
                       next_id>>

\* lines 1659-1662: the dialog is cancelled.
OptionsCancelled ==
    UNCHANGED <<optVars, annotVars>>

\* lines 1669-1671: the page-numbers checkbox is toggled to `checked`.
QuickTogglePageNumbers(checked) ==
    /\ checked # checkboxes.page_numbers
    /\ checkboxes' = [checkboxes EXCEPT !.page_numbers = checked]
    /\ output_options' = [output_options EXCEPT !.page_numbers.enabled = checked]
    /\ UNCHANGED annotVars

\* lines 1673-1675: the watermark checkbox is toggled to `checked`.
QuickToggleWatermark(checked) ==
    /\ checked # checkboxes.watermark
    /\ checkboxes' = [checkboxes EXCEPT !.watermark = checked]
    /\ output_options' = [output_options EXCEPT !.watermark.enabled = checked]
    /\ UNCHANGED annotVars

on_output_options ==
    \/ \E pn \in DialogPageNumbers, wm \in DialogWatermarks : OptionsAccepted(pn, wm)
    \/ OptionsCancelled

on_quick_toggle_page_numbers == \E checked \in BOOLEAN : QuickTogglePageNumbers(checked)

on_quick_toggle_watermark == \E checked \in BOOLEAN : QuickToggleWatermark(checked)

NextOptions ==
    \/ on_output_options /\ UNCHANGED <<vars, callVars, projVars>>
    \/ on_quick_toggle_page_numbers /\ UNCHANGED <<vars, callVars, projVars>>
    \/ on_quick_toggle_watermark /\ UNCHANGED <<vars, callVars, projVars>>

SpecOptions == InitOptions /\ [][NextOptions]_<<optVars, annotVars>>

\* C26: an accepted options dialog leaves the window's options with the
\* same annotation list object and the same annotations in the same order
\* (and the settings of the dialog); a cancelled one leaves the options
\* unchanged; a quick-toggle checkbox changes only its enabled flag.
C26_Step ==
    /\ \A pn \in DialogPageNumbers, wm \in DialogWatermarks :
          OptionsAccepted(pn, wm) =>
             /\ output_options'.annotations = output_options.annotations
             /\ annotations' = annotations
             /\ output_options'.page_numbers = pn
             /\ output_options'.watermark.enabled = wm.enabled
    /\ OptionsCancelled =>
          output_options' = output_options /\ annotations' = annotations
    /\ \A checked \in BOOLEAN :
          /\ QuickTogglePageNumbers(checked) =>
                /\ output_options' =
                      [output_options EXCEPT !.page_numbers.enabled = checked]
                /\ annotations' = annotations
          /\ QuickToggleWatermark(checked) =>
                /\ output_options' =
                      [output_options EXCEPT !.watermark.enabled = checked]
                /\ annotations' = annotations

C26_AnnotationsSurviveOptions == [][C26_Step]_<<optVars, annotVars>>

\* The options were changed in the dialog while the session holds two
\* annotations, which are still there, in the list they were in.
C26_Witness ==
    /\ output_options # <<>>
    /\ output_options.page_numbers.start = 5
    /\ output_options.watermark.text = "CONFIDENTIAL"
    /\ output_options.annotations = 1
    /\ Len(annotations) = 2
    /\ annotations[1].id = 2

\* =========================================================================
\* The project's file list: ProjectModel (model.py) and the FileListWidget
\* that shows it and reorders it by drag and drop (view.py).
\*
\* The file system is the environment and is fixed for a behaviour: a path
\* is its spelling, its suffix, the absolute path it resolves to and what
\* the file system holds there.  Indices are 0-based as in the code; the
\* entry at index i is model_entries[i + 1].
\* =========================================================================

\* Longest list of paths handed to one call of add_files.
MaxAdd == 2

\* model.py line 13
SUPPORTED_EXTENSIONS == {".pdf", ".jpg", ".jpeg", ".png", ".bmp", ".tiff", ".tif"}

\* The paths of the modelled file system.  Two spellings resolve to the same
\* file; one file has an unsupported extension; one path is a directory and
\* one names nothing.
FsPaths ==
    { [str |-> "docs/a.pdf", suffix |-> ".pdf",
       resolved |-> "/w/docs/a.pdf", kind |-> "file"],
      [str |-> "docs/../docs/a.pdf", suffix |-> ".pdf",
       resolved |-> "/w/docs/a.pdf", kind |-> "file"],
      [str |-> "docs/b.PNG", suffix |-> ".PNG",
       resolved |-> "/w/docs/b.PNG", kind |-> "file"],
      [str |-> "e.tif", suffix |-> ".tif",
       resolved |-> "/w/e.tif", kind |-> "file"],
      [str |-> "docs/notes.txt", suffix |-> ".txt",
       resolved |-> "/w/docs/notes.txt", kind |-> "file"],
      [str |-> "docs", suffix |-> "",
       resolved |-> "/w/docs", kind |-> "dir"],
      [str |-> "gone.pdf", suffix |-> ".pdf",
       resolved |-> "/w/gone.pdf", kind |-> "missing"] }

\* Path.is_file(), Path.is_dir(), Path.resolve()
is_file(p) == p.kind = "file"

is_dir(p) == p.kind = "dir"

resolve(p) == p.resolved

\* model.py lines 16-18
is_supported(p) == Lower(p.suffix) \in SUPPORTED_EXTENSIONS

\* folder.rglob("*"): everything below the folder, spelled from the folder.
rglob(folder) ==
    IF folder.str = "docs"
    THEN { p \in FsPaths : p.str \in {"docs/a.pdf", "docs/b.PNG", "docs/notes.txt"} }
    ELSE {}

\* The order of Path objects (by their parts), as a rank of the modelled
\* spellings.
PathRank(p) ==
    CASE p.str = "docs" -> 1
      [] p.str = "docs/../docs/a.pdf" -> 2
      [] p.str = "docs/a.pdf" -> 3
      [] p.str = "docs/b.PNG" -> 4
      [] p.str = "docs/notes.txt" -> 5
      [] p.str = "e.tif" -> 6
      [] OTHER -> 7

\* sorted(...) of a set of paths
RECURSIVE sorted(_)
sorted(S) ==
    IF S = {} THEN <<>>
    ELSE LET least == CHOOSE p \in S : \A q \in S : PathRank(p) <= PathRank(q)
         IN <<least>> \o sorted(S \ {least})

\* model.py lines 21-27: FileEntry(path=p); included defaults to True.
NewFileEntry(p) == [path |-> p, included |-> TRUE]

\* model.py line 81: the resolved paths of the entries of the list.
Existing(es) == { resolve(es[k].path) : k \in 1..Len(es) }

\* A variant of line 92 that forgets the path it has just accepted.
SeenForgetting(existing, p) == existing

\* model.py line 92: existing.add(p.resolve())
Seen(existing, p) == existing \cup {resolve(p)}

\* model.py lines 83-93: the loop of add_files from the k-th path on, with
\* the list, the set of resolved paths and the count so far.
RECURSIVE add_files_loop(_, _, _, _, _)
add_files_loop(es, existing, paths, k, added) ==
    IF k > Len(paths) THEN [entries |-> es, added |-> added]
    ELSE LET p == paths[k] IN
         IF ~is_file(p) THEN add_files_loop(es, existing, paths, k + 1, added)
         ELSE IF ~is_supported(p)
              THEN add_files_loop(es, existing, paths, k + 1, added)
         ELSE IF resolve(p) \in existing
              THEN add_files_loop(es, existing, paths, k + 1, added)
         ELSE add_files_loop(Append(es, NewFileEntry(p)), Seen(existing, p),
                             paths, k + 1, added + 1)

\* model.py lines 76-96: what add_files(paths) makes of the list es, and the
\* count it returns.
add_files_result(es, paths) == add_files_loop(es, Existing(es), paths, 1, 0)

\* model.py lines 98-109: what add_folder(folder) makes of the list es, and
\* the count it returns.
add_folder_result(es, folder) ==
    IF ~is_dir(folder) THEN [entries |-> es, added |-> 0]
    ELSE add_files_result(es,
            sorted({ p \in rglob(folder) : is_file(p) /\ is_supported(p) }))

\* model.py lines 94-95: `if added: self.list_changed.emit()`
Emitted(r) == IF r.added > 0 THEN 1 ELSE 0

\* model.py lines 76-96: ProjectModel.add_files(paths)
add_files(paths) ==
    LET r == add_files_result(model_entries, paths)
    IN /\ model_entries' = r.entries
       /\ list_changed' = Emitted(r)
       /\ returned' = <<r.added>>

\* model.py lines 98-109: ProjectModel.add_folder(folder)
add_folder(folder) ==
    LET r == add_folder_result(model_entries, folder)
    IN /\ model_entries' = r.entries
       /\ list_changed' = Emitted(r)
       /\ returned' = <<r.added>>

\* The entries of es whose 0-based index is not in to_remove, in order.
RECURSIVE Keep(_, _, _)
Keep(es, to_remove, k) ==
    IF k > Len(es) THEN <<>>
    ELSE (IF (k - 1) \in to_remove THEN <<>> ELSE <<es[k]>>)
         \o Keep(es, to_remove, k + 1)

\* model.py lines 113-121: ProjectModel.remove(indices)
remove(indices) ==
    LET kept == Keep(model_entries, indices, 1)
    IN /\ model_entries' = kept
       /\ list_changed' = IF Len(kept) # Len(model_entries) THEN 1 ELSE 0
       /\ returned' = <<>>

\* model.py lines 123-127: ProjectModel.clear()
clear ==
    /\ model_entries' = <<>>
    /\ list_changed' = IF model_entries # <<>> THEN 1 ELSE 0
    /\ returned' = <<>>

\* list.pop(i): the list without the element at 0-based index i.
Pop(es, i) == [k \in 1..(Len(es) - 1) |-> IF k <= i THEN es[k] ELSE es[k + 1]]

\* list.insert(i, x) for 0 <= i <= len: x at 0-based index i.
Insert(es, i, x) ==
    [k \in 1..(Len(es) + 1) |->
        IF k <= i THEN es[k] ELSE IF k = i + 1 THEN x ELSE es[k - 1]]

\* A variant of lines 139-140 that inserts before the entry that was at
\* new_index in the list as it was before the pop.
PopInsertBefore(es, old_index, new_index) ==
    Insert(Pop(es, old_index),
           IF new_index > old_index THEN new_index - 1 ELSE new_index,
           es[old_index + 1])

\* model.py lines 139-140: pop the entry, insert it at new_index.
PopInsert(es, old_index, new_index) ==
    Insert(Pop(es, old_index), new_index, es[old_index + 1])

\* model.py lines 131-141: ProjectModel.move(old_index, new_index)
move(old_index, new_index) ==
    /\ returned' = <<>>
    /\ IF old_index = new_index
          \/ ~(0 <= old_index /\ old_index < Len(model_entries))
          \/ ~(0 <= new_index /\ new_index < Len(model_entries))
       THEN /\ list_changed' = 0
            /\ UNCHANGED model_entries
       ELSE /\ model_entries' = PopInsert(model_entries, old_index, new_index)
            /\ list_changed' = 1

\* model.py lines 143-145: ProjectModel.move_up(index)
move_up(index) == move(index, index - 1)

\* model.py lines 147-149: ProjectModel.move_down(index)
move_down(index) == move(index, index + 1)

\* model.py lines 153-157: ProjectModel.toggle_included(index)
toggle_included(index) ==
    /\ returned' = <<>>
    /\ IF 0 <= index /\ index < Len(model_entries)
       THEN /\ model_entries' =
                [model_entries EXCEPT ![index + 1].included = ~@]
            /\ list_changed' = 1
       ELSE /\ list_changed' = 0
            /\ UNCHANGED model_entries

\* model.py lines 159-164: ProjectModel.set_included(index, included)
set_included(index, incl) ==
    /\ returned' = <<>>
    /\ IF /\ 0 <= index /\ index < Len(model_entries)
          /\ model_entries[index + 1].included # incl
       THEN /\ model_entries' =
                [model_entries EXCEPT ![index + 1].included = incl]
            /\ list_changed' = 1
       ELSE /\ list_changed' = 0
            /\ UNCHANGED model_entries

\* ------------------------------------------- view.py: FileListWidget, drops

\* QListWidget.count(): the widget shows one row per entry of the model.
count == Len(model_entries)

\* view.py lines 1546-1553: _add_paths(paths) from the k-th path on: folders
\* are scanned, files are added one by one; emitted counts the emissions of
\* list_changed.
RECURSIVE add_paths_loop(_, _, _, _)
add_paths_loop(es, paths, k, emitted) ==
    IF k > Len(paths) THEN [entries |-> es, emitted |-> emitted]
    ELSE LET p == paths[k] IN
         IF is_dir(p)
         THEN LET r == add_folder_result(es, p)
              IN add_paths_loop(r.entries, paths, k + 1, emitted + Emitted(r))
         ELSE IF is_file(p)
         THEN LET r == add_files_result(es, <<p>>)
              IN add_paths_loop(r.entries, paths, k + 1, emitted + Emitted(r))
         ELSE add_paths_loop(es, paths, k + 1, emitted)

\* view.py lines 249-251: startDrag; row is currentRow(), the row the drag
\* was started on.
startDrag(row) ==
    /\ drag_source = "none"
    /\ drag_source' = "self"
    /\ drag_start_row' = row
    /\ last_call' = <<"startDrag", row>>
    /\ list_changed' = 0
    /\ returned' = <<>>
    /\ row_moved' = <<>>
    /\ UNCHANGED <<model_entries, gap_index>>

\* view.py lines 253-257: dragEnterEvent for a drag of files that comes from
\* outside the widget.
dragEnterEvent ==
    /\ drag_source = "none"
    /\ drag_source' = "external"
    /\ last_call' = <<"dragEnterEvent">>
    /\ list_changed' = 0
    /\ returned' = <<>>
    /\ row_moved' = <<>>
    /\ UNCHANGED <<model_entries, drag_start_row, gap_index>>

\* view.py lines 259-280: dragMoveEvent; target is what _gap_index_for_pos
\* (lines 218-245) makes of the cursor position.
dragMoveEvent(target) ==
    /\ drag_source # "none"
    /\ last_call' = <<"dragMoveEvent", target>>
    /\ IF drag_source = "self"
       THEN IF /\ drag_start_row >= 0
               /\ (target = drag_start_row \/ target = drag_start_row + 1)
            THEN gap_index' = -1
            ELSE gap_index' = target
       ELSE gap_index' = target
    /\ list_changed' = 0
    /\ returned' = <<>>
    /\ row_moved' = <<>>
    /\ UNCHANGED <<model_entries, drag_source, drag_start_row>>

\* view.py lines 282-284: dragLeaveEvent; the drag goes on outside the
\* widget or ends there, and the widget hears no more of it.
dragLeaveEvent ==
    /\ drag_source # "none"
    /\ last_call' = <<"dragLeaveEvent">>
    /\ gap_index' = -1
    /\ drag_source' = "none"
    /\ list_changed' = 0
    /\ returned' = <<>>
    /\ row_moved' = <<>>
    /\ UNCHANGED <<model_entries, drag_start_row>>

\* view.py line 306: "insert before target" as a move-to index.
move_to_index(target, old_row) ==
    IF target < old_row THEN target ELSE target - 1

\* view.py line 307: the index clamped to the rows of the widget.
clamp_row(new_row) == Max(0, Min(new_row, count - 1))

\* view.py lines 286-315 with the slots connected to the signals it emits
\* (_on_external_drop, lines 1589-1593; _on_drag_reorder, lines 1585-1587):
\* dropEvent at a position that _gap_index_for_pos maps to pos_target, with
\* the local paths of the payload.
dropEvent(pos_target, paths) ==
    LET target == IF gap_index >= 0 THEN gap_index ELSE pos_target
    IN /\ drag_source # "none"
       /\ drag_source' = "none"
       /\ last_call' = <<"dropEvent", drag_source, drag_start_row, target>>
       /\ gap_index' = -1
       /\ IF drag_source = "external"
          THEN LET r == add_paths_loop(model_entries, paths, 1, 0)
               IN /\ model_entries' = r.entries
                  /\ list_changed' = r.emitted
                  /\ returned' = <<>>
                  /\ row_moved' = <<>>
                  /\ UNCHANGED drag_start_row
          ELSE /\ drag_start_row' = -1
               /\ IF drag_start_row >= 0
                  THEN LET old_row == drag_start_row
                           new_row == clamp_row(move_to_index(target, old_row))
                       IN IF old_row # new_row
                          THEN /\ row_moved' = <<old_row, new_row>>
                               /\ move(old_row, new_row)
                          ELSE /\ row_moved' = <<>>
                               /\ list_changed' = 0
                               /\ returned' = <<>>
                               /\ UNCHANGED model_entries
                  ELSE /\ row_moved' = <<>>
                       /\ list_changed' = 0
                       /\ returned' = <<>>
                       /\ UNCHANGED model_entries

\* ------------------------------------------------ the project specification

\* The lists of paths handed to add_files or dropped on the widget.
PathLists == UNION { [1..n -> FsPaths] : n \in 0..MaxAdd }

\* The indices a caller may pass: those of the list, one before and one past.
Indices == -1..Len(model_entries)

\* A ProjectModel operation called while no drag is under way (the buttons
\* and menus that call it are out of reach during a drag); the widget's own
\* state is left alone.
ModelCall(call, op) ==
    /\ drag_source = "none"
    /\ op
    /\ last_call' = call
    /\ row_moved' = <<>>
    /\ UNCHANGED <<drag_source, drag_start_row, gap_index>>

AddFiles ==
    \E paths \in PathLists :
        ModelCall(<<"add_files">>, add_files(paths))

AddFolder ==
    \E folder \in { p \in FsPaths : ~is_file(p) } :
        ModelCall(<<"add_folder">>, add_folder(folder))

Remove ==
    \E indices \in SUBSET Indices :
        ModelCall(<<"remove">>, remove(indices))

Clear == ModelCall(<<"clear">>, clear)

Move ==
    \E old_index \in Indices, new_index \in Indices :
        ModelCall(<<"move", old_index, new_index>>, move(old_index, new_index))

MoveUp ==
    \E index \in Indices :
        ModelCall(<<"move_up", index>>, move_up(index))

MoveDown ==
    \E index \in Indices :
        ModelCall(<<"move_down", index>>, move_down(index))

ToggleIncluded ==
    \E index \in Indices :
        ModelCall(<<"toggle_included", index>>, toggle_included(index))

SetIncluded ==
    \E index \in Indices, incl \in BOOLEAN :
        ModelCall(<<"set_included", index>>, set_included(index, incl))

InitProject ==
    /\ MergeIdle
    /\ CallIdle
    /\ AnnotIdle
    /\ OptIdle
    /\ ProjIdle

NextProject ==
    \/ AddFiles /\ UNCHANGED <<vars, callVars, annotVars, optVars>>
    \/ AddFolder /\ UNCHANGED <<vars, callVars, annotVars, optVars>>
    \/ Remove /\ UNCHANGED <<vars, callVars, annotVars, optVars>>
    \/ Clear /\ UNCHANGED <<vars, callVars, annotVars, optVars>>
    \/ Move /\ UNCHANGED <<vars, callVars, annotVars, optVars>>
    \/ MoveUp /\ UNCHANGED <<vars, callVars, annotVars, optVars>>
    \/ MoveDown /\ UNCHANGED <<vars, callVars, annotVars, optVars>>
    \/ ToggleIncluded /\ UNCHANGED <<vars, callVars, annotVars, optVars>>
    \/ SetIncluded /\ UNCHANGED <<vars, callVars, annotVars, optVars>>

\* The operations of ProjectModel, in any order.
SpecProject == InitProject /\ [][NextProject]_projVars

StartDrag == \E row \in 0..(count - 1) : startDrag(row)

DragMove == \E target \in 0..count : dragMoveEvent(target)

Drop ==
    \E pos_target \in 0..count :
        \E paths \in (IF drag_source = "external" THEN PathLists ELSE {<<>>}) :
            dropEvent(pos_target, paths)

NextDrag ==
    \/ AddFiles /\ UNCHANGED <<vars, callVars, annotVars, optVars>>
    \/ StartDrag /\ UNCHANGED <<vars, callVars, annotVars, optVars>>
    \/ dragEnterEvent /\ UNCHANGED <<vars, callVars, annotVars, optVars>>
    \/ DragMove /\ UNCHANGED <<vars, callVars, annotVars, optVars>>
    \/ dragLeaveEvent /\ UNCHANGED <<vars, callVars, annotVars, optVars>>
    \/ Drop /\ UNCHANGED <<vars, callVars, annotVars, optVars>>

\* Files are added to the list and its rows are dragged and dropped.
SpecDrag == InitProject /\ [][NextDrag]_projVars

\* ------------------------------------------------- properties of the project

\* The paths of `paths` an add_files on the list es accepts, from the k-th
\* on: a file with a supported extension whose resolved path is neither in
\* the list nor that of an accepted path before it.
RECURSIVE AcceptedFrom(_, _, _, _)
AcceptedFrom(es, paths, k, taken) ==
    IF k > Len(paths) THEN <<>>
    ELSE IF /\ paths[k].kind = "file"
            /\ Lower(paths[k].suffix) \in
                  {".pdf", ".jpg", ".jpeg", ".png", ".bmp", ".tiff", ".tif"}
            /\ \A j \in 1..Len(es) : es[j].path.resolved # paths[k].resolved
            /\ paths[k].resolved \notin taken
         THEN <<paths[k]>>
              \o AcceptedFrom(es, paths, k + 1, taken \cup {paths[k].resolved})
         ELSE AcceptedFrom(es, paths, k + 1, taken)

C27_ListWellFormed ==
    /\ \A i, j \in 1..Len(model_entries) :
          i # j => model_entries[i].path.resolved # model_entries[j].path.resolved
    /\ \A i \in 1..Len(model_entries) :
          Lower(model_entries[i].path.suffix) \in
              {".pdf", ".jpg", ".jpeg", ".png", ".bmp", ".tiff", ".tif"}

\* add_files, given any list of paths in this state, yields the list with
\* the accepted paths appended in the order given, and their number.
C27_AppendsAccepted ==
    \A paths \in PathLists :
        LET accepted == AcceptedFrom(model_entries, paths, 1, {})
            r == add_files_result(model_entries, paths)
        IN /\ Len(r.entries) = Len(model_entries) + Len(accepted)
           /\ \A k \in 1..Len(model_entries) : r.entries[k] = model_entries[k]
           /\ \A k \in 1..Len(accepted) :
                 r.entries[Len(model_entries) + k].path = accepted[k]
           /\ r.added = Len(accepted)

\* A call of add_files leaves the list it found in place and returns the
\* number of entries it has put behind it.
C27_Step ==
    (last_call' = <<"add_files">>) =>
        /\ Len(model_entries') >= Len(model_entries)
        /\ \A k \in 1..Len(model_entries) : model_entries'[k] = model_entries[k]
        /\ returned' = <<Len(model_entries') - Len(model_entries)>>
        /\ list_changed' = IF Len(model_entries') > Len(model_entries) THEN 1 ELSE 0

\* C27: whatever ProjectModel operations have run, no two entries of the
\* list resolve to the same absolute path and every entry has a supported
\* extension; add_files appends the paths it accepts at the end, in the
\* order given, and returns how many it appended.
C27_NoDuplicatesAppendInOrder ==
    [](C27_ListWellFormed /\ C27_AppendsAccepted) /\ [][C27_Step]_projVars

\* add_files was handed a spelling of a file the list did not hold yet and a
\* second spelling of the same file, or a path it rejects: it has appended
\* one entry, the third of the list, and returned 1.
C27_Witness ==
    /\ last_call = <<"add_files">>
    /\ returned = <<1>>
    /\ Len(model_entries) = 3
    /\ model_entries[3].path.str = "docs/../docs/a.pdf"

\* The list es without the entry at 0-based index i.
Without(es, i) ==
    [k \in 1..(Len(es) - 1) |-> IF k <= i THEN es[k] ELSE es[k + 1]]

\* What move(old_index, new_index) has to have done.
MovePost(old_index, new_index) ==
    IF /\ old_index # new_index
       /\ old_index \in 0..(Len(model_entries) - 1)
       /\ new_index \in 0..(Len(model_entries) - 1)
    THEN /\ Len(model_entries') = Len(model_entries)
         /\ model_entries'[new_index + 1] = model_entries[old_index + 1]
         /\ Without(model_entries', new_index) = Without(model_entries, old_index)
         /\ list_changed' = 1
    ELSE /\ model_entries' = model_entries
         /\ list_changed' = 0

C28_Step ==
    /\ \A old_index \in Indices, new_index \in Indices :
          (/\ last_call' = <<"move", old_index, new_index>>
           /\ ModelCall(<<"move", old_index, new_index>>,
                        move(old_index, new_index)))
              => MovePost(old_index, new_index)
    /\ \A index \in Indices :
          (/\ last_call' = <<"move_up", index>>
           /\ ModelCall(<<"move_up", index>>, move_up(index)))
              => /\ MovePost(index, index - 1)
                 /\ index = 0 => model_entries' = model_entries /\ list_changed' = 0
    /\ \A index \in Indices :
          (/\ last_call' = <<"move_down", index>>
           /\ ModelCall(<<"move_down", index>>, move_down(index)))
              => /\ MovePost(index, index + 1)
                 /\ index = Len(model_entries) - 1
                       => model_entries' = model_entries /\ list_changed' = 0

\* C28: move(old_index, new_index) with both indices in range and different
\* puts the moved entry at new_index, keeps the other entries in their
\* order and emits list_changed once; with equal indices or one out of range
\* (move_up on 0 and move_down on the last index among them) the list is as
\* it was and nothing is emitted.
C28_MovePermutes == [][C28_Step]_projVars

\* move(0, 2) has run on a list of three entries: the first addition is last.
C28_Witness ==
    /\ last_call = <<"move", 0, 2>>
    /\ list_changed = 1
    /\ Len(model_entries) = 3
    /\ model_entries[1].path.str = "docs/b.PNG"
    /\ model_entries[2].path.str = "e.tif"
    /\ model_entries[3].path.str = "docs/a.pdf"

\* The list es with the entry of row s taken out and put into the gap before
\* row g: the entries above the gap, the dragged entry, the entries below.
IntoGap(es, s, g) ==
    LET above == { k \in 1..Len(es) : k <= g /\ k # s + 1 }
        n == Cardinality(above)
    IN [k \in 1..Len(es) |->
           IF k <= n THEN Without(es, s)[k]
           ELSE IF k = n + 1 THEN es[s + 1]
           ELSE Without(es, s)[k - 1]]

C29_Step ==
    \A pos_target \in 0..count :
        \A paths \in (IF drag_source = "external" THEN PathLists ELSE {<<>>}) :
            dropEvent(pos_target, paths) =>
                /\ gap_index' = -1
                /\ drag_start_row' = -1
                /\ (drag_source = "self" /\ drag_start_row >= 0) =>
                      LET s == drag_start_row
                          g == IF gap_index >= 0 THEN gap_index ELSE pos_target
                          n == Max(0, Min(IF g < s THEN g ELSE g - 1, count - 1))
                      IN /\ n # s => row_moved' = <<s, n>>
                         /\ n = s => row_moved' = <<>>
                         /\ model_entries' = IntoGap(model_entries, s, g)

\* C29: an internal drag from row s dropped with the gap before row g makes
\* dropEvent emit row_moved(s, n), n = g if g < s else g - 1 clamped to the
\* rows, and nothing when n = s; after the move the dragged entry sits right
\* before the entry that was at row g (last when g = count); after every
\* dropEvent the gap index and the drag start row are -1.
C29_DropMovesIntoGap == [][C29_Step]_projVars

====
